---- MODULE Spec2Model ----
(***************************************************************************)
(* A model of the VirtualList component of vueuc                           *)
(* (src/src/virtual-list/src/VirtualList.ts).                              *)
(*                                                                         *)
(* The component keeps an internal scroll offset (scrollTopRef) and an     *)
(* internal viewport height (listHeightRef), derives from them the slice   *)
(* of items to render, and talks to a host scroll surface (listRef) that   *)
(* has its own scroll offset and height.  Pixel quantities are integers.   *)
(* A value that may be undefined in the source is a sequence of length 0   *)
(* (undefined) or 1 (the value).                                           *)
(***************************************************************************)
EXTENDS Integers, Sequences, FiniteSets, TLC

\* ------------------------------------------------------------------ bounds
\* The longest item sequence.
MaxItems == 3
\* The largest itemSize prop.
MaxItemSize == 2
\* The paddingTop prop, when it is not 0.
MaxPadding == 1
\* The tallest host surface.
MaxHeight == 2
\* Scroll events counted between two frames.
MaxBurst == 2

\* paddingBottom keeps its default.
paddingBottom == 0
\* Number.MAX_SAFE_INTEGER (2^53 - 1) is beyond TLC's integers; it stands
\* here, as in the source, for a number above every content height.
MAX_SAFE_INTEGER == 2147483647

\* --------------------------------------------------------------- undefined
Undefined == << >>
Some(x) == << x >>
IsDefined(m) == m # Undefined
ValueOf(m) == m[1]
\* options.f of a scrollTo options object: undefined when the field is absent
Field(o, f) == IF f \in DOMAIN o THEN Some(o[f]) ELSE Undefined

Min(a, b) == IF a <= b THEN a ELSE b
Max(a, b) == IF a >= b THEN a ELSE b
\* Math.floor(a / b) and Math.ceil(a / b) for b > 0
Floor(a, b) == a \div b
Ceil(a, b) == -((-a) \div b)

VARIABLES
  items,          \* props.items: the sequence of the items' keys
  itemSize,       \* props.itemSize
  paddingTop,     \* props.paddingTop
  listHeight,     \* listHeightRef: undefined | number
  scrollTop,      \* scrollTopRef
  rafFlag,        \* rafFlag.value
  frames,         \* the syncViewport callbacks handed to nextFrame and not yet run
  keyIndexMap,    \* keyIndexMapRef: the cached value of the computed and its dirty bit
  hostScrollTop,  \* listRef.scrollTop
  hostHeight,     \* listRef.offsetHeight
  scrollPending,  \* the host surface has a scroll event to deliver
  burst,          \* handleListScroll calls since syncViewport last ran
  last,           \* the step just taken and what it showed the outside
  defaultScrollIndex,  \* props.defaultScrollIndex: undefined | number
  defaultScrollKey,    \* props.defaultScrollKey: undefined | number
  mounted,        \* the onMounted hook has run
  applied,        \* scrollTo calls made so far for the default scroll target
  observerThrows  \* the caller's onScroll and onResize throw when invoked

\* what only mounting changes, and what nothing changes
mountVars == << defaultScrollIndex, defaultScrollKey, mounted, applied, observerThrows >>

vars == << items, itemSize, paddingTop, listHeight, scrollTop, rafFlag, frames,
           keyIndexMap, hostScrollTop, hostHeight, scrollPending, burst, last,
           mountVars >>

\* ---------------------------------------------------------------- geometry
\* preparedRef (line 98)
preparedRef_truthy(h) == IsDefined(h) /\ ValueOf(h) # 0
preparedRef(h) == IsDefined(h)

\* startIndexRef (lines 100-105)
startIndexRef_noBuffer(st, pt, size) == Max(Floor(st - pt, size), 0)
startIndexRef_abs(st, pt, size) ==
  LET i == Floor(st - pt, size) - 1 IN IF i < 0 THEN 0 - i ELSE i
startIndexRef(st, pt, size) == Max(Floor(st - pt, size) - 1, 0)

\* endIndex of viewportItemsRef (lines 110-118)
endIndexOf_noBuffer(len, size, pt, h, st) ==
  Min(startIndexRef(st, pt, size)
        + Ceil(Min(h, size * len + pt - st), size),
      len - 1)
endIndexOf_unclamped(len, size, pt, h, st) ==
  startIndexRef(st, pt, size) + Ceil(Min(h, size * len + pt - st), size) + 1
endIndexOf_noViewportCap(len, size, pt, h, st) ==
  Min(startIndexRef(st, pt, size) + Ceil(size * len + pt - st, size) + 1,
      len - 1)
endIndexOf(len, size, pt, h, st) ==
  Min(startIndexRef(st, pt, size)
        + Ceil(Min(h, size * len + pt - st), size) + 1,
      len - 1)

\* items[i] of a JavaScript array (0-based): undefined outside it
ItemAt(its, i) == IF 0 <= i /\ i < Len(its) THEN Some(its[i + 1]) ELSE Undefined

\* viewportItemsRef (lines 106-124)
viewportItemsRef_unprepared(its, size, pt, lh, st) ==
  LET h == IF IsDefined(lh) THEN ValueOf(lh) ELSE 0
      startIndex == startIndexRef(st, pt, size)
      endIndex == endIndexOf(Len(its), size, pt, h, st)
  IN [j \in 1..Max(endIndex - startIndex + 1, 0) |-> ItemAt(its, startIndex + j - 1)]
viewportItemsRef(its, size, pt, lh, st) ==
  IF ~preparedRef(lh) THEN << >>
  ELSE LET startIndex == startIndexRef(st, pt, size)
           endIndex == endIndexOf(Len(its), size, pt, ValueOf(lh), st)
       IN [j \in 1..Max(endIndex - startIndex + 1, 0) |->
             ItemAt(its, startIndex + j - 1)]

\* renderList(this.viewportItems, (item, index) => renderSlot(..., { item, index }))
\* (lines 267-269): index is the position in the array being rendered
renderList(vis) == [j \in 1..Len(vis) |-> [item |-> vis[j], index |-> j - 1]]

\* render (lines 240-275): what is handed to the host renderer
render(its, size, pt, lh, st) ==
  IF Len(its) # 0
    THEN [branch |-> "items",
          height |-> size * Len(its),
          translate |-> startIndexRef(st, pt, size) * size,
          slots |-> renderList(viewportItemsRef(its, size, pt, lh, st))]
    ELSE [branch |-> "empty"]

\* --------------------------------------------------------------- key index
\* the forEach of keyIndexMapRef (lines 90-94): a later item with the same key
\* overwrites an earlier one
BuildKeyIndexMap(its) ==
  [k \in {its[i] : i \in 1..Len(its)} |->
     CHOOSE i \in 0..(Len(its) - 1) :
       /\ its[i + 1] = k
       /\ \A j \in (i + 1)..(Len(its) - 1) : its[j + 1] # k]

\* A computed caches its value until a dependency changes: the cache is
\* undefined while dirty.  Invalidate is what a change of props.items does to it.
Invalidate_keep(cache) == cache
Invalidate(cache) == Undefined

\* keyIndexMapRef.value (line 140): the cached map, rebuilt when dirty
KeyIndexMapValue(cache, its) ==
  IF IsDefined(cache) THEN ValueOf(cache) ELSE BuildKeyIndexMap(its)

\* Map.prototype.get
MapGet(m, k) == IF k \in DOMAIN m THEN Some(m[k]) ELSE Undefined

\* ------------------------------------------------------------ host surface
\* The height of the scrolled content: the v-vl-items block (lines 197-204)
\* when there are items, else the empty slot, taken to have no height.
ContentHeight(len, size, pt) ==
  IF len # 0 THEN size * len + pt + paddingBottom ELSE 0

\* The largest scroll offset the host surface allows.
MaxScrollTop(len, size, pt, oh) == Max(ContentHeight(len, size, pt) - oh, 0)

Clamp(top, maxTop) == Max(0, Min(top, maxTop))

\* Element.scrollTo({ left, top, behavior }) on the host surface: the offset
\* is clamped to the scrollable range; an undefined top leaves it alone.  The
\* behavior decides only how the offset is reached, not where it ends.
HostScrollTo(cur, cmd, maxTop) ==
  IF IsDefined(cmd.top) THEN Clamp(ValueOf(cmd.top), maxTop) ELSE cur

RECURSIVE HostApply(_, _, _)
HostApply(cur, cmds, maxTop) ==
  IF cmds = << >> THEN cur
  ELSE HostApply(HostScrollTo(cur, Head(cmds), maxTop), Tail(cmds), maxTop)

\* ----------------------------------------------------------------- scrollTo
\* scrollToPosition (lines 180-190)
scrollToPosition(left, top, behavior) ==
  << [left |-> left, top |-> top, behavior |-> behavior] >>

\* the debounce branch of scrollToIndex (lines 157-177): the top to scroll to,
\* undefined for "do nothing"
debounceTop_always(targetTop, size, st, oh) == Some(targetTop)
debounceTop_noItemSize(targetTop, size, st, oh) ==
  IF targetTop > st
    THEN IF targetTop + size <= st + oh
           THEN Undefined
           ELSE Some(targetTop - oh)
    ELSE Some(targetTop)
debounceTop(targetTop, size, st, oh) ==
  IF targetTop > st
    THEN IF targetTop + size <= st + oh
           THEN Undefined
           ELSE Some(targetTop + size - oh)
    ELSE Some(targetTop)

\* scrollToIndex (lines 148-179); st and oh are listRef's scrollTop and offsetHeight
scrollToIndex(index, behavior, debounce, size, pt, st, oh) ==
  LET targetTop == index * size + pt
  IN IF ~debounce
       THEN << [left |-> Some(0), top |-> Some(targetTop), behavior |-> behavior] >>
       ELSE LET top == debounceTop(targetTop, size, st, oh)
            IN IF IsDefined(top)
                 THEN << [left |-> Some(0), top |-> top, behavior |-> behavior] >>
                 ELSE << >>

\* the if-else chain of scrollTo (lines 135-146): the branch taken
scrollToBranch_indexFirst(left, top, index, key, position) ==
  IF IsDefined(index) THEN "index"
  ELSE IF IsDefined(left) \/ IsDefined(top) THEN "position"
  ELSE IF IsDefined(key) THEN "key"
  ELSE IF position = Some("bottom") THEN "bottom"
  ELSE IF position = Some("top") THEN "top"
  ELSE "none"
scrollToBranch(left, top, index, key, position) ==
  IF IsDefined(left) \/ IsDefined(top) THEN "position"
  ELSE IF IsDefined(index) THEN "index"
  ELSE IF IsDefined(key) THEN "key"
  ELSE IF position = Some("bottom") THEN "bottom"
  ELSE IF position = Some("top") THEN "top"
  ELSE "none"

\* scrollTo (lines 125-147): the scroll commands issued to the host surface,
\* in order, and the key index cache afterwards
scrollTo(options, cache, its, size, pt, st, oh) ==
  LET left == Field(options, "left")
      top == Field(options, "top")
      index == Field(options, "index")
      key == Field(options, "key")
      position == Field(options, "position")
      behavior == Field(options, "behavior")
      debounce == IF "debounce" \in DOMAIN options THEN options.debounce ELSE TRUE
      branch == scrollToBranch(left, top, index, key, position)
      map == KeyIndexMapValue(cache, its)
      toIndex == MapGet(map, ValueOf(key))
  IN CASE branch = "position" ->
            [cmds |-> scrollToPosition(left, top, behavior), cache |-> cache]
       [] branch = "index" ->
            [cmds |-> scrollToIndex(ValueOf(index), behavior, debounce, size, pt, st, oh),
             cache |-> cache]
       [] branch = "key" ->
            [cmds |-> IF IsDefined(toIndex)
                        THEN scrollToIndex(ValueOf(toIndex), behavior, debounce,
                                           size, pt, st, oh)
                        ELSE << >>,
             cache |-> Some(map)]
       [] branch = "bottom" ->
            [cmds |-> scrollToPosition(Some(0), Some(MAX_SAFE_INTEGER), behavior),
             cache |-> cache]
       [] branch = "top" ->
            [cmds |-> scrollToPosition(Some(0), Some(0), behavior), cache |-> cache]
       [] OTHER -> [cmds |-> << >>, cache |-> cache]

\* ---------------------------------------------------------------- handlers
\* The instance the methods run on; seen is what the caller's observer is
\* shown when it is invoked (undefined: no observer was invoked).
This ==
  [listHeight |-> listHeight, scrollTop |-> scrollTop, rafFlag |-> rafFlag,
   frames |-> frames, seen |-> Undefined, thrown |-> FALSE]

\* nextFrame (imported from ../../shared): the callback joins those that run,
\* once each, at a later frame
nextFrame(q) == q + 1

\* lines 223-226 of handleListScroll
ScheduleSync_unguarded(t) == [t EXCEPT !.frames = nextFrame(@), !.rafFlag = TRUE]
ScheduleSync(t) ==
  IF ~t.rafFlag
    THEN [t EXCEPT !.frames = nextFrame(@), !.rafFlag = TRUE]
    ELSE t

\* lines 227-228 of handleListScroll: onScroll(e), e.target being listRef
NotifyScroll(t, e) ==
  [t EXCEPT !.seen = Some([event |-> e, scrollTop |-> t.scrollTop,
                           rafFlag |-> t.rafFlag]),
            !.thrown = observerThrows]

\* handleListScroll (lines 221-229); a statement after a throw does not run
handleListScroll_notifyFirst(t, e) ==
  LET u == NotifyScroll(t, e) IN IF u.thrown THEN u ELSE ScheduleSync(u)
handleListScroll(t, e) ==
  LET u == ScheduleSync(t) IN IF u.thrown THEN u ELSE NotifyScroll(u, e)

\* line 231 of handleListResize
RecordHeight(t, height) == [t EXCEPT !.listHeight = Some(height)]

\* lines 232-233 of handleListResize: onResize(entry)
NotifyResize(t, height) ==
  [t EXCEPT !.seen = Some([entry |-> height, listHeight |-> t.listHeight]),
            !.thrown = observerThrows]

\* handleListResize (lines 230-234)
handleListResize_notifyFirst(t, height) ==
  LET u == NotifyResize(t, height) IN IF u.thrown THEN u ELSE RecordHeight(u, height)
handleListResize(t, height) ==
  LET u == RecordHeight(t, height) IN IF u.thrown THEN u ELSE NotifyResize(u, height)

\* syncViewport (lines 235-238)
syncViewport_keepFlag(t, hostTop) == [t EXCEPT !.scrollTop = hostTop]
syncViewport(t, hostTop) == [t EXCEPT !.scrollTop = hostTop, !.rafFlag = FALSE]

\* the instance after a method ran
Becomes(t) ==
  /\ listHeight' = t.listHeight
  /\ scrollTop' = t.scrollTop
  /\ rafFlag' = t.rafFlag
  /\ frames' = t.frames

\* ------------------------------------------------------------- inputs
\* The item sequences supplied as props.items: the prefixes of the rotations
\* of keys 1..MaxItems (keys are unique within a sequence, and a key sits at
\* different indices in different sequences).
Rotation(k) == [i \in 1..MaxItems |-> ((i - 1 + k) % MaxItems) + 1]
ItemSnapshots ==
  {SubSeq(Rotation(k), 1, n) : k \in 0..(MaxItems - 1), n \in 0..MaxItems}
\* ... of which the event loop is run on the prefixes of one.
LoopSnapshots == {SubSeq(Rotation(0), 1, n) : n \in 0..MaxItems}

\* The options objects scrollTo is called with: every index up to the first
\* one past the longest sequence, every key up to one no sequence holds.
Tops == 0..MaxHeight
Indices == 0..MaxItems
AskedKeys == 1..(MaxItems + 1)
SingleOptions ==
  [top : Tops] \cup [left : {0}]
  \cup [index : Indices] \cup [index : Indices, debounce : {FALSE}]
  \cup [index : {0}, debounce : {TRUE}]
  \cup [index : {MaxItems - 1}, behavior : {"smooth"}]
  \cup [key : AskedKeys] \cup [key : {1}, debounce : {FALSE}]
  \cup [key : {1}, behavior : {"smooth"}]
  \cup [position : {"top", "bottom", "middle"}]
\* ... with several navigation options at once
MixedOptions ==
  [left : {0}, top : {0}]
  \cup [top : {0}, index : {MaxItems - 1}]
  \cup [left : {0}, key : {1}]
  \cup [index : {0}, key : {MaxItems}]
  \cup [index : {MaxItems - 1}, position : {"top"}]
  \cup [key : {1, MaxItems + 1}, position : {"bottom"}]
  \cup [top : {0}, index : {MaxItems - 1}, key : {1}, position : {"bottom"}]
  \cup [behavior : {"smooth"}]
  \cup {<< >>}
ScrollOptions == SingleOptions \cup MixedOptions
\* ... and those of the event loop
LoopOptions ==
  [index : {0, MaxItems - 1}] \cup [position : {"bottom"}]

\* ------------------------------------------------------------------ actions
\* The component once mounted, with no default scroll target and observers
\* that return.  Item size and top padding are props fixed for a run: the
\* smallest and the largest of each are run.
Init ==
  /\ items \in LoopSnapshots
  /\ itemSize \in {1, MaxItemSize}
  /\ paddingTop \in {0, MaxPadding}
  /\ listHeight = Undefined
  /\ scrollTop = 0
  /\ rafFlag = FALSE
  /\ frames = 0
  /\ keyIndexMap = Undefined
  /\ hostScrollTop = 0
  /\ hostHeight \in 0..MaxHeight
  /\ scrollPending = FALSE
  /\ burst = 0
  /\ last = [op |-> "setup"]
  /\ defaultScrollIndex = Undefined
  /\ defaultScrollKey = Undefined
  /\ mounted = TRUE
  /\ applied = 0
  /\ observerThrows = FALSE

\* The user scrolls the host surface.
UserScroll ==
  \E top \in 0..MaxScrollTop(Len(items), itemSize, paddingTop, hostHeight) :
    /\ top # hostScrollTop
    /\ hostScrollTop' = top
    /\ scrollPending' = TRUE
    /\ last' = [op |-> "userScroll"]
    /\ UNCHANGED << mountVars, items, itemSize, paddingTop, listHeight, scrollTop, rafFlag,
                    frames, keyIndexMap, hostHeight, burst >>

\* The host surface delivers its scroll event.
ScrollEvent ==
  /\ scrollPending
  /\ LET t == handleListScroll(This, hostScrollTop)
     IN /\ Becomes(t)
        /\ last' = [op |-> "handleListScroll", seen |-> t.seen, thrown |-> t.thrown]
  /\ scrollPending' = FALSE
  /\ burst' = Min(burst + 1, MaxBurst)
  /\ UNCHANGED << mountVars, items, itemSize, paddingTop, keyIndexMap, hostScrollTop, hostHeight >>

\* A frame: the callback handed to nextFrame runs.
Frame ==
  /\ frames > 0
  /\ LET t == syncViewport([This EXCEPT !.frames = @ - 1], hostScrollTop)
     IN /\ Becomes(t)
        /\ last' = [op |-> "syncViewport", covered |-> burst]
  /\ burst' = 0
  /\ UNCHANGED << mountVars, items, itemSize, paddingTop, keyIndexMap, hostScrollTop, hostHeight,
                  scrollPending >>

\* The host surface changes height; its scroll offset stays within the range.
HostResize ==
  \E h \in 0..MaxHeight :
    /\ h # hostHeight
    /\ hostHeight' = h
    /\ hostScrollTop' = Clamp(hostScrollTop, MaxScrollTop(Len(items), itemSize, paddingTop, h))
    /\ scrollPending' = (scrollPending \/ hostScrollTop' # hostScrollTop)
    /\ last' = [op |-> "hostResize"]
    /\ UNCHANGED << mountVars, items, itemSize, paddingTop, listHeight, scrollTop, rafFlag,
                    frames, keyIndexMap, burst >>

\* The resize observer reports the surface's height: on mount, and whenever
\* the height differs from the one it reported last.
ResizeReport ==
  /\ listHeight # Some(hostHeight)
  /\ LET t == handleListResize(This, hostHeight)
     IN /\ Becomes(t)
        /\ last' = [op |-> "handleListResize", seen |-> t.seen, thrown |-> t.thrown]
  /\ UNCHANGED << mountVars, items, itemSize, paddingTop, keyIndexMap, hostScrollTop, hostHeight,
                  scrollPending, burst >>

\* The caller supplies another item sequence.
SetItems(snapshots) ==
  \E its \in snapshots :
    /\ its # items
    /\ items' = its
    /\ keyIndexMap' = Invalidate(keyIndexMap)
    /\ hostScrollTop' = Clamp(hostScrollTop, MaxScrollTop(Len(its), itemSize, paddingTop, hostHeight))
    /\ scrollPending' = (scrollPending \/ hostScrollTop' # hostScrollTop)
    /\ last' = [op |-> "setItems"]
    /\ UNCHANGED << mountVars, itemSize, paddingTop, listHeight, scrollTop, rafFlag, frames,
                    hostHeight, burst >>

\* The caller calls scrollTo.
ScrollTo_syncs(optionSet) ==
  \E options \in optionSet :
    LET r == scrollTo(options, keyIndexMap, items, itemSize, paddingTop,
                      hostScrollTop, hostHeight)
    IN /\ hostScrollTop' = HostApply(hostScrollTop, r.cmds,
                             MaxScrollTop(Len(items), itemSize, paddingTop, hostHeight))
       /\ scrollPending' = (scrollPending \/ hostScrollTop' # hostScrollTop)
       /\ scrollTop' = hostScrollTop'
       /\ keyIndexMap' = r.cache
       /\ last' = [op |-> "scrollTo", options |-> options, cmds |-> r.cmds,
                   before |-> hostScrollTop]
       /\ UNCHANGED << mountVars, items, itemSize, paddingTop, listHeight, rafFlag,
                       frames, hostHeight, burst >>
ScrollTo(optionSet) ==
  \E options \in optionSet :
    LET r == scrollTo(options, keyIndexMap, items, itemSize, paddingTop,
                      hostScrollTop, hostHeight)
    IN /\ hostScrollTop' = HostApply(hostScrollTop, r.cmds,
                             MaxScrollTop(Len(items), itemSize, paddingTop, hostHeight))
       /\ scrollPending' = (scrollPending \/ hostScrollTop' # hostScrollTop)
       /\ keyIndexMap' = r.cache
       /\ last' = [op |-> "scrollTo", options |-> options, cmds |-> r.cmds,
                   before |-> hostScrollTop]
       /\ UNCHANGED << mountVars, items, itemSize, paddingTop, listHeight, scrollTop, rafFlag,
                       frames, hostHeight, burst >>

\* The component in its event loop.
Next ==
  \/ UserScroll
  \/ ScrollEvent
  \/ Frame
  \/ HostResize
  \/ ResizeReport
  \/ SetItems(LoopSnapshots)
  \/ ScrollTo(LoopOptions)

Spec == Init /\ [][Next]_vars

\* The caller navigating: scrollTo with every kind of options object, on
\* every item sequence, at every offset of the host surface.
NavInit == Init
NavNext ==
  \/ UserScroll
  \/ SetItems(ItemSnapshots)
  \/ ScrollTo(ScrollOptions)

NavSpec == NavInit /\ [][NavNext]_vars

\* ------------------------------------------------------------------ mounting
\* props.defaultScrollIndex / defaultScrollKey may also be passed as null
Null == << 0, 0 >>
\* x !== undefined && x !== null (lines 80, 82)
Configured(x) == x # Undefined /\ x # Null

\* onMounted (lines 78-88): the scrollTo calls the hook makes, in order
onMounted_truthy(index, key) ==
  IF Configured(index) /\ ValueOf(index) # 0 THEN << [index |-> ValueOf(index)] >>
  ELSE IF Configured(key) THEN << [key |-> ValueOf(key)] >>
  ELSE << >>
onMounted(index, key) ==
  IF Configured(index) THEN << [index |-> ValueOf(index)] >>
  ELSE IF Configured(key) THEN << [key |-> ValueOf(key)] >>
  ELSE << >>

\* The default scroll targets a caller configures.
DefaultIndices == {Undefined, Null, Some(0), Some(MaxItems - 1)}
DefaultKeys == {Undefined, Null, Some(1), Some(MaxItems + 1)}

\* The component set up and not yet mounted: the host surface is at offset 0.
MountInit ==
  /\ items \in LoopSnapshots
  /\ itemSize \in {1, MaxItemSize}
  /\ paddingTop \in {0, MaxPadding}
  /\ listHeight = Undefined
  /\ scrollTop = 0
  /\ rafFlag = FALSE
  /\ frames = 0
  /\ keyIndexMap = Undefined
  /\ hostScrollTop = 0
  /\ hostHeight \in 0..MaxHeight
  /\ scrollPending = FALSE
  /\ burst = 0
  /\ last = [op |-> "setup"]
  /\ defaultScrollIndex \in DefaultIndices
  /\ defaultScrollKey \in DefaultKeys
  /\ mounted = FALSE
  /\ applied = 0
  /\ observerThrows = FALSE

\* The component is mounted: the onMounted hook runs.
Mount ==
  /\ ~mounted
  /\ mounted' = TRUE
  /\ LET calls == onMounted(defaultScrollIndex, defaultScrollKey)
         r == IF calls = << >>
                THEN [cmds |-> << >>, cache |-> keyIndexMap]
                ELSE scrollTo(calls[1], keyIndexMap, items, itemSize, paddingTop,
                              hostScrollTop, hostHeight)
     IN /\ hostScrollTop' = HostApply(hostScrollTop, r.cmds,
                              MaxScrollTop(Len(items), itemSize, paddingTop, hostHeight))
        /\ scrollPending' = (scrollPending \/ hostScrollTop' # hostScrollTop)
        /\ keyIndexMap' = r.cache
        /\ applied' = applied + Len(calls)
        /\ last' = [op |-> "onMounted", calls |-> calls, cmds |-> r.cmds,
                    before |-> hostScrollTop]
  /\ UNCHANGED << defaultScrollIndex, defaultScrollKey, observerThrows, items, itemSize,
                  paddingTop, listHeight, scrollTop, rafFlag, frames, hostHeight, burst >>

\* Mounting, and what follows it: the first resize report, the scroll event of
\* the default target and its frame, other item sequences.
MountNext ==
  \/ Mount
  \/ mounted /\ ScrollEvent
  \/ mounted /\ Frame
  \/ mounted /\ ResizeReport
  \/ mounted /\ SetItems(LoopSnapshots)

MountSpec == MountInit /\ [][MountNext]_vars

\* ------------------------------------------------------------------ scrolling
\* The list being scrolled, by the user and by scrollTo calls.  The host
\* delivers every scroll event and runs every frame callback: a scroll event
\* stays undelivered, and a callback pending, until the step is taken.
LiveInit == Init
LiveNext ==
  \/ UserScroll
  \/ ScrollTo(LoopOptions)
  \/ ScrollEvent
  \/ Frame

LiveSpec ==
  /\ LiveInit /\ [][LiveNext]_vars
  /\ WF_vars(ScrollEvent)
  /\ WF_vars(Frame)

\* ---------------------------------------------------------- failing observers
\* The mounted component with observers that return, or observers that throw.
ThrowInit ==
  /\ items \in LoopSnapshots
  /\ itemSize \in {1, MaxItemSize}
  /\ paddingTop \in {0, MaxPadding}
  /\ listHeight = Undefined
  /\ scrollTop = 0
  /\ rafFlag = FALSE
  /\ frames = 0
  /\ keyIndexMap = Undefined
  /\ hostScrollTop = 0
  /\ hostHeight \in 0..MaxHeight
  /\ scrollPending = FALSE
  /\ burst = 0
  /\ last = [op |-> "setup"]
  /\ defaultScrollIndex = Undefined
  /\ defaultScrollKey = Undefined
  /\ mounted = TRUE
  /\ applied = 0
  /\ observerThrows \in BOOLEAN

\* Scrolling and resizing: the steps that invoke an observer, and the frames.
ThrowNext ==
  \/ UserScroll
  \/ ScrollEvent
  \/ Frame
  \/ HostResize
  \/ ResizeReport

ThrowSpec == ThrowInit /\ [][ThrowNext]_vars

\* ------------------------------------------------------------ derived state
prepared == preparedRef(listHeight)
startIndex == startIndexRef(scrollTop, paddingTop, itemSize)
endIndex == endIndexOf(Len(items), itemSize, paddingTop, ValueOf(listHeight), scrollTop)
viewportItems == viewportItemsRef(items, itemSize, paddingTop, listHeight, scrollTop)
rendered == render(items, itemSize, paddingTop, listHeight, scrollTop)

\* ------------------------------------------------------------------ claims

\* C1: in every Prepared state the window of a non-empty sequence satisfies
\* 0 <= startIndex <= endIndex <= itemCount - 1, and an empty sequence has an
\* empty window and renders the empty placeholder.
C1_WindowInRange ==
  prepared =>
    /\ Len(items) > 0 =>
         0 <= startIndex /\ startIndex <= endIndex /\ endIndex <= Len(items) - 1
    /\ Len(items) = 0 => viewportItems = << >> /\ rendered.branch = "empty"

\* C2: the j-th item of the rendered slice (j = 0, 1, ...) is handed to the
\* renderer with index startIndex + j, its index in the full sequence.
C2_OriginalIndex ==
  rendered.branch = "items" =>
    \A j \in 1..Len(rendered.slots) :
      /\ rendered.slots[j].index = startIndex + (j - 1)
      /\ rendered.slots[j].item = ItemAt(items, rendered.slots[j].index)

\* C3 as stated: when onScroll is invoked the internal scroll offset equals
\* the host surface's offset, and when onResize is invoked the internal
\* viewport height equals the reported height.
C3_ObserverSeesSyncedState ==
  /\ last.op = "handleListScroll" =>
       /\ IsDefined(last.seen)
       /\ ValueOf(last.seen).scrollTop = ValueOf(last.seen).event
  /\ last.op = "handleListResize" =>
       /\ IsDefined(last.seen)
       /\ ValueOf(last.seen).listHeight = Some(ValueOf(last.seen).entry)

\* C3 (amended): each observer is invoked after its own handler's update: when
\* onScroll is invoked the recomputation is already scheduled (rafFlag is
\* set), the internal scroll offset being brought up only by that
\* recomputation; when onResize is invoked the internal viewport height equals
\* the reported height.
C3_ObserverAfterHandlerUpdate ==
  /\ last.op = "handleListScroll" =>
       /\ IsDefined(last.seen)
       /\ ValueOf(last.seen).rafFlag
       /\ ValueOf(last.seen).scrollTop = scrollTop
  /\ last.op = "handleListResize" =>
       /\ IsDefined(last.seen)
       /\ ValueOf(last.seen).listHeight = Some(ValueOf(last.seen).entry)

\* onScroll was invoked while the internal offset lagged the host's.
C3_Witness ==
  /\ last.op = "handleListScroll"
  /\ IsDefined(last.seen)
  /\ ValueOf(last.seen).scrollTop # ValueOf(last.seen).event
  /\ ValueOf(last.seen).rafFlag

\* C4: at most one syncViewport callback is pending; rafFlag is set exactly
\* when one is; one is pending exactly when scroll events (any number k >= 1)
\* were handled since syncViewport last ran; the run clears the flag and
\* leaves nothing pending, and a scroll event after it schedules again.
C4_FrameCoalescing ==
  /\ frames <= 1
  /\ rafFlag <=> frames = 1
  /\ burst >= 1 <=> frames = 1
  /\ last.op = "syncViewport" => ~rafFlag /\ frames = 0 /\ burst = 0
  /\ last.op = "handleListScroll" => rafFlag /\ frames = 1 /\ burst >= 1

\* Several scroll events were handled between two frames, one callback pending.
C4_Witness ==
  /\ last.op = "handleListScroll"
  /\ burst >= 2
  /\ frames = 1
  /\ rafFlag

\* The shapes of a scrollTo call.
NavFields == {"left", "top", "index", "key", "position"}
IndexCall(o) == DOMAIN o \cap NavFields = {"index"}
KeyCall(o) == DOMAIN o \cap NavFields = {"key"}
\* debounce = true, given or by default
Debounced(o) == "debounce" \notin DOMAIN o \/ o.debounce
\* the top edge of the item at index i
TopOf(i) == i * itemSize + paddingTop
\* the index of key k in the sequence its (keys unique), counted from 0
PositionOf(its, k) == CHOOSE i \in 0..(Len(its) - 1) : its[i + 1] = k
Keys(its) == {its[i] : i \in 1..Len(its)}

\* C5: a debounced scroll-to-index whose item is already fully inside the
\* viewport (offset <= item top and item bottom <= offset + viewport height)
\* leaves the host scroll offset as it was.
C5_VisibleItemNoMove ==
  (last.op = "scrollTo" /\ IndexCall(last.options) /\ Debounced(last.options)) =>
    LET targetTop == TopOf(last.options.index)
    IN (last.before <= targetTop
          /\ targetTop + itemSize <= last.before + hostHeight)
         => hostScrollTop = last.before

\* A debounced scroll-to-index of an item strictly inside the viewport that was
\* scrolled down before the call.
C5_Witness ==
  /\ last.op = "scrollTo" /\ IndexCall(last.options) /\ Debounced(last.options)
  /\ last.before > 0
  /\ last.before < TopOf(last.options.index)
  /\ TopOf(last.options.index) + itemSize <= last.before + hostHeight
  /\ last.cmds = << >>

\* C6: a debounced scroll-to-index of a valid index aligns the nearer edge: an
\* item whose top is at or above the offset gets its top at the new offset; an
\* item whose bottom is below the viewport gets its bottom at the new offset
\* plus the viewport height; the host's clamping alters neither; index 50,
\* itemSize 20, offset 0, viewport height 200 gives 820.
C6_NearerEdge ==
  /\ (last.op = "scrollTo" /\ IndexCall(last.options) /\ Debounced(last.options)
        /\ last.options.index < Len(items)) =>
       LET targetTop == TopOf(last.options.index)
       IN /\ targetTop <= last.before => hostScrollTop = targetTop
          /\ (targetTop > last.before
                /\ targetTop + itemSize > last.before + hostHeight)
               => targetTop + itemSize = hostScrollTop + hostHeight
  /\ debounceTop(50 * 20 + 0, 20, 0, 200) = Some(820)
  /\ Clamp(820, MaxScrollTop(51, 20, 0, 200)) = 820

\* A debounced scroll-to-index that moved the list down to the item's bottom.
C6_Witness ==
  /\ last.op = "scrollTo" /\ IndexCall(last.options) /\ Debounced(last.options)
  /\ last.options.index < Len(items)
  /\ TopOf(last.options.index) + itemSize > last.before + hostHeight
  /\ hostScrollTop > last.before
  /\ hostHeight > 0

\* the options of the scroll-to-index call a scroll-to-key call stands for
AsIndexCall(o, i) ==
  [f \in (DOMAIN o \ {"key"}) \cup {"index"} |-> IF f = "index" THEN i ELSE o[f]]

\* C7: scrollTo with a key of the current sequence issues the scroll command
\* of scrollTo with the key's current index (same behavior and debounce), and
\* with a key not in the current sequence it issues none and the offset stays.
C7_KeyIsIndex ==
  (last.op = "scrollTo" /\ KeyCall(last.options)) =>
    IF last.options.key \in Keys(items)
      THEN last.cmds =
             scrollTo(AsIndexCall(last.options, PositionOf(items, last.options.key)),
                      keyIndexMap, items, itemSize, paddingTop,
                      last.before, hostHeight).cmds
      ELSE last.cmds = << >> /\ hostScrollTop = last.before

\* A scroll-to-key that moved the list, on a sequence that replaced the first
\* one (in the sequences given at setup key k is at index k - 1).
C7_Witness ==
  /\ last.op = "scrollTo" /\ KeyCall(last.options)
  /\ last.options.key \in Keys(items)
  /\ PositionOf(items, last.options.key) # last.options.key - 1
  /\ Len(last.cmds) = 1
  /\ hostScrollTop # last.before

\* the navigation option the spec's order of precedence honours: pixel
\* position (left/top), then index, then key, then named position
Honoured(o) ==
  IF {"left", "top"} \cap DOMAIN o # {} THEN {"left", "top"}
  ELSE IF "index" \in DOMAIN o THEN {"index"}
  ELSE IF "key" \in DOMAIN o THEN {"key"}
  ELSE {"position"}
\* the options without the navigation options that are not honoured
OnlyHonoured(o) ==
  [f \in DOMAIN o \cap (Honoured(o) \cup {"behavior", "debounce"}) |-> o[f]]

\* C8: a scrollTo call issues at most one scroll command, the one of the
\* highest-precedence option it supplies, as if the other options were not
\* there; an unknown key yields none even with a position; a call with no
\* recognized option yields none.
C8_Precedence ==
  last.op = "scrollTo" =>
    /\ Len(last.cmds) <= 1
    /\ last.cmds = scrollTo(OnlyHonoured(last.options), keyIndexMap, items, itemSize,
                            paddingTop, last.before, hostHeight).cmds
    /\ (Honoured(last.options) = {"key"} /\ last.options.key \notin Keys(items))
         => last.cmds = << >>
    /\ (DOMAIN last.options \cap NavFields = {}
          \/ (DOMAIN last.options \cap NavFields = {"position"}
                /\ last.options.position \notin {"top", "bottom"}))
         => last.cmds = << >>

\* A call with a pixel position and an index: the position was honoured.
C8_Witness ==
  /\ last.op = "scrollTo"
  /\ {"top", "index"} \subseteq DOMAIN last.options
  /\ last.cmds = << [left |-> Undefined, top |-> Some(last.options.top),
                     behavior |-> Undefined] >>
  /\ TopOf(last.options.index) # last.options.top
  /\ hostScrollTop # last.before

\* C9: while no resize report has arrived the visible window is empty, and
\* only a resize report ends that state.
C9_UnpreparedEmpty ==
  /\ [](~prepared => viewportItems = << >>)
  /\ [][(~prepared /\ last'.op # "handleListResize") => ~prepared']_vars

\* Unprepared, with items, after scroll events and a frame moved the offset.
C9_Witness ==
  /\ ~prepared
  /\ Len(items) > 0
  /\ last.op = "syncViewport"
  /\ scrollTop > 0

\* C10: a handled resize report leaves the component Prepared, and Prepared
\* is never left.
C10_PreparedForever ==
  /\ [](last.op = "handleListResize" => prepared)
  /\ [][prepared => prepared']_vars

\* A resize report of height 0 was handled.
C10_Witness ==
  /\ last.op = "handleListResize"
  /\ listHeight = Some(0)
  /\ prepared

\* C11: mounting with defaultScrollIndex configured (0 included) makes exactly
\* one scrollTo call, the debounced scroll-to-index of that index, whether or
\* not defaultScrollKey is configured too; with only defaultScrollKey
\* configured, exactly one debounced scroll-to-key; with neither, no call and
\* no scroll command; and no step after mounting makes such a call again.
C11_DefaultTargetOnce ==
  /\ ~mounted => applied = 0
  /\ mounted =>
       applied = IF Configured(defaultScrollIndex) \/ Configured(defaultScrollKey)
                   THEN 1 ELSE 0
  /\ last.op = "onMounted" =>
       /\ Configured(defaultScrollIndex) =>
            /\ Len(last.calls) = 1
            /\ DOMAIN last.calls[1] = {"index"}
            /\ last.calls[1].index = ValueOf(defaultScrollIndex)
            /\ last.cmds = scrollToIndex(ValueOf(defaultScrollIndex), Undefined, TRUE,
                                         itemSize, paddingTop, last.before, hostHeight)
       /\ (~Configured(defaultScrollIndex) /\ Configured(defaultScrollKey)) =>
            /\ Len(last.calls) = 1
            /\ DOMAIN last.calls[1] = {"key"}
            /\ last.calls[1].key = ValueOf(defaultScrollKey)
            /\ last.cmds =
                 IF ValueOf(defaultScrollKey) \in Keys(items)
                   THEN scrollToIndex(PositionOf(items, ValueOf(defaultScrollKey)),
                                      Undefined, TRUE, itemSize, paddingTop,
                                      last.before, hostHeight)
                   ELSE << >>
       /\ (~Configured(defaultScrollIndex) /\ ~Configured(defaultScrollKey)) =>
            last.calls = << >> /\ last.cmds = << >> /\ hostScrollTop = last.before

\* Mounted with default index 0 and a default key: the index was applied, and
\* an item change after it made no further call.
C11_Witness ==
  /\ mounted
  /\ defaultScrollIndex = Some(0)
  /\ Configured(defaultScrollKey)
  /\ applied = 1
  /\ last.op = "setItems"

\* C12: a scrollTo call changes neither the internal scroll offset, nor the
\* internal viewport height, nor the pending-frame flag, nor the pending frame
\* callbacks: it only moves the host surface; and the internal scroll offset
\* changes in no step but the run of the frame callback.
C12_ScrollToDefers ==
  /\ [][last'.op = "scrollTo" =>
          /\ scrollTop' = scrollTop
          /\ listHeight' = listHeight
          /\ rafFlag' = rafFlag
          /\ frames' = frames]_vars
  /\ [][scrollTop' # scrollTop => last'.op = "syncViewport"]_vars

\* A scrollTo call moved the host surface of a Prepared list; the internal
\* offset is the one from before the call and no frame callback is pending.
C12_Witness ==
  /\ last.op = "scrollTo"
  /\ hostScrollTop # last.before
  /\ scrollTop = last.before
  /\ prepared
  /\ ~rafFlag /\ frames = 0

\* the integer q with q * b <= a < (q + 1) * b, and the one with
\* (q - 1) * b < a <= q * b, for b > 0
RefFloor(a, b) ==
  LET m == IF a < 0 THEN 1 - a ELSE a + 1
  IN CHOOSE q \in (0 - m)..m : q * b <= a /\ a < (q + 1) * b
RefCeil(a, b) ==
  LET m == IF a < 0 THEN 1 - a ELSE a + 1
  IN CHOOSE q \in (0 - m)..m : (q - 1) * b < a /\ a <= q * b
\* the reference geometry
RefStartIndex(offset, pt, size) ==
  LET raw == RefFloor(offset - pt, size) - 1 IN IF raw > 0 THEN raw ELSE 0
RefEndIndex(count, size, pt, height, offset) ==
  LET span == size * count + pt - offset
      least == IF height < span THEN height ELSE span
      raw == RefStartIndex(offset, pt, size) + RefCeil(least, size) + 1
  IN IF raw < count - 1 THEN raw ELSE count - 1

\* C13: startIndex is max(floor((scrollOffset - paddingTop) / itemSize) - 1, 0);
\* once a viewport height is known endIndex is min(startIndex +
\* ceil(min(viewportHeight, itemSize * itemCount + paddingTop - scrollOffset)
\* / itemSize) + 1, itemCount - 1); the visible block is translated by
\* startIndex * itemSize; itemSize 30, paddingTop 0, viewport height 100, 1000
\* items and offset 305 give startIndex 9 and endIndex 14.
C13_GeometryFormulas ==
  /\ startIndex = RefStartIndex(scrollTop, paddingTop, itemSize)
  /\ prepared =>
       endIndex = RefEndIndex(Len(items), itemSize, paddingTop,
                              ValueOf(listHeight), scrollTop)
  /\ rendered.branch = "items" =>
       rendered.translate = RefStartIndex(scrollTop, paddingTop, itemSize) * itemSize
  /\ startIndexRef(305, 0, 30) = 9
  /\ endIndexOf(1000, 30, 0, 100, 305) = 14

\* Prepared, scrolled to an offset that is no multiple of the item size, past
\* the first two items.
C13_Witness ==
  /\ prepared
  /\ ValueOf(listHeight) > 0
  /\ rendered.branch = "items"
  /\ (scrollTop - paddingTop) % itemSize # 0
  /\ startIndex >= 1
  /\ rendered.translate > 0

\* C14: startIndex does not decrease with the scroll offset: every offset up
\* to the current one gives a startIndex no larger than the current one (item
\* size and top padding being the same).
C14_StartIndexMonotone ==
  \A a \in 0..scrollTop :
    startIndexRef(a, paddingTop, itemSize) <= startIndex

\* Scrolled far enough for startIndex to have grown past 0.
C14_Witness ==
  /\ startIndex >= 1
  /\ startIndexRef(0, paddingTop, itemSize) = 0
  /\ \E a \in 0..scrollTop : startIndexRef(a, paddingTop, itemSize) < startIndex

\* C15: whenever no scroll event is undelivered and no frame callback is
\* pending, the internal scroll offset equals the host surface's; and, scroll
\* events being delivered and frame callbacks run, an internal offset that
\* differs from the host's is eventually followed by one that equals it.
C15_NoLostScroll ==
  /\ []((~scrollPending /\ frames = 0) => scrollTop = hostScrollTop)
  /\ (scrollTop # hostScrollTop) ~> (scrollTop = hostScrollTop)

\* A frame callback ran that stood for several scroll events, all but the
\* first of which arrived while it was pending; nothing is outstanding and the
\* internal offset is the host's.
C15_Witness ==
  /\ last.op = "syncViewport"
  /\ last.covered >= 2
  /\ ~scrollPending /\ frames = 0
  /\ scrollTop = hostScrollTop
  /\ scrollTop > 0

\* item i's pixel extent [top, top + itemSize) meets the viewport
\* [offset, offset + height)
InViewport(i, offset, height) ==
  TopOf(i) < offset + height /\ TopOf(i) + itemSize > offset

\* C16: in a Prepared state whose internal scroll offset is the host's and
\* whose internal viewport height is the host's, every item whose pixel extent
\* meets the viewport is in the rendered slice, at position i - startIndex of
\* it, and the slice's translation puts it at paddingTop + i * itemSize.
C16_Coverage ==
  (prepared /\ scrollTop = hostScrollTop /\ listHeight = Some(hostHeight)) =>
    \A i \in 0..(Len(items) - 1) :
      InViewport(i, scrollTop, hostHeight) =>
        /\ startIndex <= i /\ i <= endIndex
        /\ i - startIndex + 1 \in DOMAIN viewportItems
        /\ viewportItems[i - startIndex + 1] = Some(items[i + 1])
        /\ paddingTop + rendered.translate + (i - startIndex) * itemSize = TopOf(i)

\* In sync and scrolled to the end: the viewport shows the last item and not
\* the first, and the slice starts past the first item.
C16_Witness ==
  /\ prepared /\ scrollTop = hostScrollTop /\ listHeight = Some(hostHeight)
  /\ hostHeight > 0
  /\ startIndex >= 1
  /\ InViewport(Len(items) - 1, scrollTop, hostHeight)
  /\ ~InViewport(0, scrollTop, hostHeight)

\* C17: the rendered slice holds items of the current sequence only: its j-th
\* element (j = 0, 1, ...) is the item at index startIndex + j, an index
\* within 0..itemCount - 1, and no element is undefined.
C17_SliceOfRealItems ==
  \A j \in 1..Len(viewportItems) :
    /\ IsDefined(viewportItems[j])
    /\ 0 <= startIndex + (j - 1) /\ startIndex + (j - 1) <= Len(items) - 1
    /\ viewportItems[j] = Some(items[startIndex + j])

\* A slice of several items that starts past the first and ends at the last.
C17_Witness ==
  /\ prepared
  /\ Len(viewportItems) >= 2
  /\ startIndex >= 1
  /\ startIndex + Len(viewportItems) = Len(items)

\* C18: the rendered slice has at most ceil(viewportHeight / itemSize) + 2
\* items, whatever the item count and the scroll offset.
C18_BoundedSlice ==
  prepared =>
    Len(viewportItems) <= RefCeil(ValueOf(listHeight), itemSize) + 2

\* The bound is met: a slice of ceil(viewportHeight / itemSize) + 2 items.
C18_Witness ==
  /\ prepared
  /\ ValueOf(listHeight) > 0
  /\ Len(viewportItems) = RefCeil(ValueOf(listHeight), itemSize) + 2

\* C19: when onScroll throws, the handler has set rafFlag and a frame callback
\* is pending; the frame callback clears the flag and leaves none pending, so a
\* later scroll event (throwing again) schedules again; when onResize throws,
\* the reported height is the internal viewport height and the component is
\* Prepared.
C19_ThrowAfterUpdate ==
  /\ (last.op = "handleListScroll" /\ last.thrown) =>
       /\ IsDefined(last.seen)
       /\ rafFlag /\ frames = 1
  /\ (last.op = "syncViewport" /\ observerThrows) => ~rafFlag /\ frames = 0
  /\ (last.op = "handleListResize" /\ last.thrown) =>
       /\ IsDefined(last.seen)
       /\ listHeight = Some(ValueOf(last.seen).entry)
       /\ prepared

\* onScroll threw, after an earlier resize report and an earlier scroll event
\* whose observers threw too and whose frame callback ran.
C19_Witness ==
  /\ last.op = "handleListScroll" /\ last.thrown
  /\ prepared
  /\ scrollTop > 0
  /\ hostScrollTop # scrollTop
  /\ rafFlag /\ frames = 1 /\ burst = 1

\* C20: a debounced scroll-to-index of a valid index, made again with the same
\* options right after the host surface applied the scroll command of the
\* first call, leaves the host scroll offset where the first call put it.
C20_RepeatIdempotent ==
  [][(/\ last.op = "scrollTo" /\ last'.op = "scrollTo"
      /\ IndexCall(last.options) /\ IndexCall(last'.options)
      /\ DOMAIN last'.options = DOMAIN last.options
      /\ last'.options = last.options
      /\ Debounced(last.options)
      /\ last.options.index < Len(items))
       => hostScrollTop' = hostScrollTop]_vars

====
